---- MODULE Spec2Model ----
(***************************************************************************)
(* Model of the video analysis pipeline of star-video-review:              *)
(*   backend/routes/ai_analysis.py   the analyze endpoint (one request =   *)
(*                                   one worker walking through its        *)
(*                                   commit-delimited blocks)              *)
(*   backend/services/ai_analyzer.py AIAnalyzer.analyze_video              *)
(*   backend/routes/annotations.py   manual annotation create/update/delete*)
(* Segment starts and durations are integers in hundredths of a second, a  *)
(* stored start_time is an integer in tenths of a second.  Text is a       *)
(* sequence of one-character strings.                                      *)
(***************************************************************************)
EXTENDS Integers, Sequences, FiniteSets, TLC

\* ------------------------------------------------------------------ bounds
MaxRequests == 1     \* analyze requests in a behaviour of Spec
MaxRuns == 3         \* analyze requests in a behaviour of SpecRuns
MaxConcurrent == 3   \* analyze requests in a behaviour of SpecConcurrent
MaxManualOps == 1    \* annotation create/update/delete requests in one behaviour
MaxTObs == 2         \* observations returned by the transcript analysis call
MaxVObs == 1         \* observations returned by the visual analysis call
MaxFrames == 2       \* frames returned by the fixed-interval sampler
MaxTotal == 3        \* observations of one result in SpecResolver
MaxTotalFrames == 4  \* frames of the video file in SpecSampler
MaxNumFrames == 3    \* num_frames asked of a sampler in SpecSampler
MaxVisual == 16      \* visual criteria of one category in SpecPrompts
MaxSampled == 31     \* frames handed to the visual analysis in SpecPrompts

Workers == {"w1", "w2"}          \* request handlers of the server
Sequential == {"w1"}             \* the handler used when requests come one at a time
VideoIds == {1, 2}               \* rows of the videos table
MissingVideoId == 3              \* an id with no row
UserId == 7                      \* get_jwt_identity() of the caller

\* ------------------------------------------------------------- text helpers
Lower(c) ==
    CASE c = "A" -> "a" [] c = "B" -> "b" [] c = "N" -> "n" [] c = "O" -> "o"
      [] c = "E" -> "e" [] OTHER -> c

LowerText(t) == [i \in 1..Len(t) |-> Lower(t[i])]

RECURSIVE LStrip(_)
LStrip(t) == IF t # <<>> /\ Head(t) = " " THEN LStrip(Tail(t)) ELSE t

RECURSIVE RStrip(_)
RStrip(t) == IF t # <<>> /\ t[Len(t)] = " " THEN RStrip(SubSeq(t, 1, Len(t) - 1)) ELSE t

Strip(t) == RStrip(LStrip(t))

Prefix(t, n) == SubSeq(t, 1, IF Len(t) < n THEN Len(t) ELSE n)

\* Python's  needle in hay  for str
Contains(hay, needle) ==
    \E i \in 0..(Len(hay) - Len(needle)) : SubSeq(hay, i + 1, i + Len(needle)) = needle

\* ------------------------------------------------- Python values of a field
Absent == [kind |-> "absent", val |-> <<>>]     \* key not in the dict
Null == [kind |-> "null", val |-> <<>>]         \* key present, value None
Str(t) == [kind |-> "str", val |-> t]

NoneDuration == -1                              \* Video.duration IS NULL
NoCategory == "none"                            \* Video.category IS NULL

\* round(x, 1) of the rational num/den tenths, ties to even
RoundTenths(num, den) ==
    LET q == num \div den
        r == num % den
    IN  IF 2 * r < den THEN q
        ELSE IF 2 * r > den THEN q + 1
        ELSE IF q % 2 = 0 THEN q ELSE q + 1

\* ------------------------------------------------------- criteria catalog
\* rows of best_practices as seed_data.py creates them (three of them); the
\* title 'Excessive Language' occurs in two categories
Catalog ==
    << [id |-> 1, category |-> "discrete_trial", title |-> "Excessive Language"],
       [id |-> 2, category |-> "pivotal_response", title |-> "Turn Taking"],
       [id |-> 3, category |-> "functional_routines", title |-> "Excessive Language"] >>

NoPractice == 0

\* BestPractice.query.filter_by(title=...).first(): the row with the lowest id
\* among the matches, NoPractice when there is none
PracticeByTitle(title) ==
    LET hits == {i \in 1..Len(Catalog) : Catalog[i].title = title}
    IN  IF hits = {} THEN NoPractice
        ELSE Catalog[CHOOSE i \in hits : \A j \in hits : i <= j].id

\* ------------------------------------------------------ timestamp resolver
QuoteSearchLen == 100

Fillers == { <<"n", "/", "a">>, <<"n", "a">>, <<"n", "o", "n", "e">>, <<>> }

\* ann_data.get('quote', '').strip() raises AttributeError on a null quote
QuoteRaises(ann) == ann.quote.kind = "null"

QuoteText(ann) == IF ann.quote.kind = "str" THEN Strip(ann.quote.val) ELSE <<>>

SegmentMatches(seg, quote) ==
    Contains(LowerText(Strip(seg.text)), LowerText(Prefix(quote, QuoteSearchLen)))

\* the for/break loop over segments: position of the first matching segment,
\* 0 when there is none
FirstMatch(segments, quote) ==
    LET hits == {i \in 1..Len(segments) : SegmentMatches(segments[i], quote)}
    IN  IF hits = {} THEN 0 ELSE CHOOSE i \in hits : \A j \in hits : i <= j

Max(a, b) == IF a > b THEN a ELSE b

\* the quote is one the code tries to match against the segments
QuoteUsable(ann) == QuoteText(ann) # <<>> /\ LowerText(QuoteText(ann)) \notin Fillers

\* value of the local start_time when an iteration of the loop begins; previous
\* is the value the iteration before left in it.  Seconds are a pair
\* <<numerator, denominator>> of hundredths.
StartTimeKept(previous) == previous

StartTimeAtEntry(previous) == <<0, 1>>

\* start_time before rounding, of the annotation at position ann_index of total
UnroundedStart(entry, ann, segments, duration, ann_index, total) ==
    LET i == IF segments # <<>> /\ QuoteUsable(ann)
             THEN FirstMatch(segments, QuoteText(ann)) ELSE 0
        matched == IF i # 0 THEN <<segments[i].start, 1>> ELSE entry
    IN  IF matched[1] = 0 /\ duration # NoneDuration /\ duration # 0
        THEN IF total > 1
             THEN <<ann_index * duration, Max(1, total - 1)>>
             ELSE <<0, 1>>
        ELSE matched

\* start_time cut to tenths of a second
TruncatedStart(unrounded) == unrounded[1] \div (10 * unrounded[2])

\* round(start_time, 1): tenths of a second
RoundedStart(unrounded) == RoundTenths(unrounded[1], 10 * unrounded[2])

\* start_time stored for the annotation at position ann_index of total
ResolveStart(ann, segments, duration, ann_index, total) ==
    RoundedStart(UnroundedStart(StartTimeAtEntry(<<0, 1>>), ann, segments, duration,
                                ann_index, total))

\* ---------------------------------------------------------- frame samplers
\* A video file is its frame count, its fps and the set of frame numbers
\* video.read() fails on.  A sampler returns the frame numbers it encoded
\* (frames) and the timestamps it went to (visited).
NoFrames == [frames |-> <<>>, visited |-> <<>>]

\* video.read() at position frame_number
Readable(file, frame_number) ==
    frame_number < file.total_frames /\ frame_number \notin file.unreadable

\* the while condition of extract_frames on the frames extracted so far
MayExtractOneMore(extracted_count, num_frames) == extracted_count <= num_frames

MayExtract(extracted_count, num_frames) == extracted_count < num_frames

RECURSIVE ReadLoop(_, _, _, _, _)
ReadLoop(file, num_frames, frame_interval, frame_count, frames) ==
    IF ~MayExtract(Len(frames), num_frames) THEN frames
    ELSE IF ~Readable(file, frame_count) THEN frames
    ELSE ReadLoop(file, num_frames, frame_interval, frame_count + 1,
                  IF frame_count % frame_interval = 0
                  THEN Append(frames, frame_count) ELSE frames)

\* extract_frames: every frame_interval-th frame read in sequence.  Division
\* by num_frames = 0, and by fps = 0 in the message printed for an extracted
\* frame, raise ZeroDivisionError, which the except turns into [].
ExtractFrames(file, num_frames) ==
    IF num_frames = 0 THEN NoFrames
    ELSE LET frames == ReadLoop(file, num_frames,
                                Max(1, file.total_frames \div num_frames), 0, <<>>)
         IN  IF file.fps = 0 /\ frames # <<>> THEN NoFrames
             ELSE [frames |-> frames, visited |-> <<>>]

\* int(duration / interval_seconds) + 1
IntervalFrames(file, interval_seconds) ==
    (IF file.fps > 0 THEN file.total_frames \div (file.fps * interval_seconds) ELSE 0) + 1

RECURSIVE SeekLoop(_, _, _, _, _)
SeekLoop(file, interval_seconds, num_frames, frame_idx, got) ==
    IF frame_idx >= num_frames THEN got
    ELSE LET timestamp == frame_idx * interval_seconds
             past == IF file.fps > 0 THEN timestamp * file.fps > file.total_frames
                     ELSE timestamp > 0
             frame_number == timestamp * file.fps
         IN  IF past THEN got
             ELSE SeekLoop(file, interval_seconds, num_frames, frame_idx + 1,
                           [frames |-> IF Readable(file, frame_number)
                                       THEN Append(got.frames, frame_number)
                                       ELSE got.frames,
                            visited |-> Append(got.visited, timestamp)])

\* extract_frames_every_n_seconds; interval_seconds = 0 raises
\* ZeroDivisionError, which the except turns into []
ExtractFramesEveryNSeconds(file, interval_seconds) ==
    IF interval_seconds = 0 THEN NoFrames
    ELSE SeekLoop(file, interval_seconds, IntervalFrames(file, interval_seconds), 0, NoFrames)

\* transcript_segments[:10]
KeySegments == 10

RECURSIVE Sorted(_)
Sorted(S) ==
    IF S = {} THEN <<>>
    ELSE LET x == CHOOSE y \in S : \A z \in S : y <= z
         IN  <<x>> \o Sorted(S \ {x})

\* key_timestamps of extract_key_frames for segment starts in whole seconds.
\* With m = max(1, num_frames - len(key_timestamps)) a timestamp is counted in
\* units of 1/(fps*m) seconds (1/m when fps = 0), in which the i-th evenly
\* spaced time point i * duration / m is i * total_frames.
KeyTimestamps(file, starts, num_frames) ==
    LET segment_times == Prefix(starts, KeySegments)
        m == Max(1, num_frames - Len(segment_times))
        unit == (IF file.fps > 0 THEN file.fps ELSE 1) * m
        key == {segment_times[i] * unit : i \in 1..Len(segment_times)}
        spaced == {(IF file.fps > 0 THEN i * file.total_frames ELSE 0) :
                       i \in 0..(num_frames - Len(segment_times) - 1)}
    IN  Prefix(Sorted(key \cup spaced), num_frames)

\* extract_key_frames: seek to every key timestamp, keep the frames read
ExtractKeyFrames(file, starts, num_frames) ==
    LET m == Max(1, num_frames - Len(Prefix(starts, KeySegments)))
        visited == KeyTimestamps(file, starts, num_frames)
        frame_number(t) == IF file.fps > 0 THEN t \div m ELSE 0
        read == {i \in 1..Len(visited) : Readable(file, frame_number(visited[i]))}
    IN  [frames |-> [j \in 1..Cardinality(read) |->
                        frame_number(visited[CHOOSE i \in read :
                                               Cardinality({h \in read : h <= i}) = j])],
         visited |-> visited]

\* ---------------------------------------------- prompts of the analysis calls
\* keywords of analyze_frames_with_vision
VisualKeywords ==
    { <<"p", "o", "s", "i", "t", "i", "o", "n", "i", "n", "g">>,
      <<"m", "a", "t", "e", "r", "i", "a", "l", "s">>,
      <<"e", "y", "e", " ", "l", "e", "v", "e", "l">>,
      <<"f", "a", "c", "i", "n", "g">>,
      <<"v", "i", "s", "u", "a", "l">>,
      <<"b", "o", "d", "y", " ", "l", "a", "n", "g", "u", "a", "g", "e">>,
      <<"g", "e", "s", "t", "u", "r", "e">>,
      <<"p", "h", "y", "s", "i", "c", "a", "l">>,
      <<"r", "e", "a", "d", "y">>,
      <<"o", "r", "g", "a", "n", "i", "z", "e", "d">>,
      <<"e", "n", "v", "i", "r", "o", "n", "m", "e", "n", "t">>,
      <<"s", "e", "t", "u", "p">> }

\* any(keyword in p.get('description', '').lower() for keyword in [...])
MentionsVisualKeyword(p) ==
    \E keyword \in VisualKeywords : Contains(LowerText(p.description), keyword)

\* p.get('category') == video_category
InAnyCategory(p, video_category) == TRUE

InCategory(p, video_category) == p.category = video_category

\* visual_practices[:15]
VisualPracticesLimit == 15

\* the criteria analyze_transcript writes into its prompt
TranscriptPractices(best_practices, video_category) ==
    IF video_category # NoCategory
    THEN LET keep(p) == InCategory(p, video_category) IN SelectSeq(best_practices, keep)
    ELSE best_practices

\* the criteria analyze_frames_with_vision writes into its prompt
VisualPractices(best_practices, video_category) ==
    LET visual_practices == SelectSeq(best_practices, MentionsVisualKeyword)
        keep(p) == InCategory(p, video_category)
    IN  Prefix(IF video_category # NoCategory THEN SelectSeq(visual_practices, keep)
               ELSE visual_practices,
               VisualPracticesLimit)

\* list[::step]
EveryNthFromSecond(list, step) ==
    [j \in 1..((Len(list) - 1) \div step) |-> list[(j - 1) * step + 2]]

EveryNth(list, step) ==
    [j \in 1..((Len(list) + step - 1) \div step) |-> list[(j - 1) * step + 1]]

\* frames sent with the prompt (up to 15)
SentFramesLimit == 15

\* sample_frames of analyze_frames_with_vision
VisionFrames(frames_base64) ==
    IF Len(frames_base64) > SentFramesLimit
    THEN Prefix(EveryNth(frames_base64, Max(1, Len(frames_base64) \div SentFramesLimit)),
                SentFramesLimit)
    ELSE frames_base64

\* ------------------------------------------------------------- AIAnalyzer
\* module-level import flags of ai_analyzer.py
LibsInstalled == [openai |-> TRUE, whisper |-> TRUE, cv2 |-> TRUE]

\* AIAnalyzer.__init__: api_key is "none" (None), "empty" ('') or "set"
AnalyzerInit(libs, api_key, use_enhanced) ==
    LET enh == use_enhanced = "true" /\ api_key # "none"
    IN  [use_enhanced |-> enh, openai_client |-> enh /\ libs.openai,
         whisper_model |-> FALSE]

\* _load_whisper_model calls whisper.load_model
LoadsWhisperModel(self, libs) == libs.whisper /\ ~self.whisper_model

\* failures of the vision call that its try/except turns into []
VisionAbsorbsOnlyParse(vision) == vision = "unparseable"

VisionAbsorbs(vision) == vision \in {"exception", "unparseable"}

\* failures of the transcript analysis call that its try/except turns into []
TranscriptAbsorbs(analysis) == analysis = "unparseable"

\* analyze_frames_with_vision: observations returned for the sampled frames
VisionObservations(self, frames, o) ==
    IF ~self.openai_client \/ frames = 0 THEN <<>>
    ELSE IF o.vision = "ok" THEN o.vobs ELSE <<>>

\* results['annotations'] = transcript_annotations + visual_annotations
CombinedVisualFirst(transcript_annotations, visual_annotations) ==
    visual_annotations \o transcript_annotations

Combined(transcript_annotations, visual_annotations) ==
    transcript_annotations \o visual_annotations

\* the test guarding the analyze_transcript call of analyze_video
AnalysisCalledInAnyMode(self, use_enhanced) == self.openai_client

AnalysisCalled(self, use_enhanced) == use_enhanced /\ self.openai_client

NoTranscriptResult ==
    [text |-> <<>>, segments |-> <<>>, language |-> "en", method |-> "none", processing_time |-> 0]

\* analyze_video: o holds what each external call does when it is reached.
\* keys is the set of keys present in the returned dict; stages the calls made
\* in order; audio_left whether the temporary audio file still exists.
AnalyzeVideo(self, libs, use_enhanced_arg, o) ==
    LET use_enhanced == IF use_enhanced_arg = "none" THEN self.use_enhanced
                        ELSE use_enhanced_arg = "true"
        base == [method |-> IF use_enhanced THEN "enhanced" ELSE "local",
                 status |-> "error",
                 keys |-> {},
                 transcript |-> NoTranscriptResult,
                 frames_extracted |-> 0,
                 visual_annotations |-> <<>>,
                 annotations |-> <<>>,
                 stages |-> <<"extract_audio">>,
                 audio_left |-> FALSE,
                 transcriber |-> "none",
                 model_loads |-> 0]
        transcribe_ok == IF use_enhanced
                         THEN self.openai_client /\ o.transcribe = "ok"
                         ELSE libs.whisper /\ o.transcribe = "ok"
        method == IF use_enhanced THEN "openai_api" ELSE "local_whisper"
        r1 == [base EXCEPT !.keys = {"audio_extracted"},
                           !.stages = <<"extract_audio", "transcribe">>,
                           !.audio_left = TRUE,
                           !.transcriber = IF use_enhanced THEN "transcribe_api"
                                           ELSE "transcribe_local",
                           !.model_loads = IF ~use_enhanced /\ LoadsWhisperModel(self, libs)
                                           THEN 1 ELSE 0]
        r2 == [r1 EXCEPT !.keys = @ \cup {"transcript"},
                         !.transcript = [o.transcript EXCEPT !.method = method]]
        sampling == use_enhanced /\ self.openai_client /\ libs.cv2
        frames == IF sampling THEN o.frames ELSE 0
        vision_called == sampling /\ frames > 0
        vision_raises == vision_called /\ o.vision # "ok" /\ ~VisionAbsorbs(o.vision)
        visual == IF vision_called THEN VisionObservations(self, frames, o) ELSE <<>>
        r3 == [r2 EXCEPT !.keys = @ \cup {"frames_extracted"}
                                    \cup (IF (vision_called /\ ~vision_raises)
                                             \/ ~sampling
                                          THEN {"visual_annotations"} ELSE {}),
                         !.frames_extracted = frames,
                         !.visual_annotations = visual,
                         !.stages = @ \o (IF sampling THEN <<"sample_frames">> ELSE <<>>)
                                      \o (IF vision_called THEN <<"visual_analysis">> ELSE <<>>)]
        analysis_called == AnalysisCalled(self, use_enhanced)
        analysis_raises == analysis_called /\ o.analysis # "ok" /\ ~TranscriptAbsorbs(o.analysis)
        transcript_annotations == IF analysis_called /\ o.analysis = "ok" THEN o.tobs ELSE <<>>
        r4 == [r3 EXCEPT !.stages = @ \o (IF analysis_called THEN <<"transcript_analysis">>
                                          ELSE <<>>)]
    IN  IF o.extract # "ok" THEN base
        ELSE IF ~transcribe_ok THEN r1
        ELSE IF vision_raises THEN r3
        ELSE IF analysis_raises THEN r4
        ELSE [r4 EXCEPT !.keys = @ \cup {"annotations"}
                                   \cup (IF use_enhanced THEN {} ELSE {"note"}),
                        !.annotations = Combined(transcript_annotations, visual),
                        !.audio_left = FALSE,
                        !.status = "success"]

\* ------------------------------------------- what the external calls return
Repeat(x, n) == [i \in 1..n |-> x]

\* transcript observations (analyze_transcript's "annotations" array)
ObsQuoted ==
    [practice_title |-> "Excessive Language", quote |-> Str(<<"O", "k">>),
     is_positive |-> TRUE, source |-> "transcript"]

ObsNullQuote ==
    [practice_title |-> "Unlisted", quote |-> Null,
     is_positive |-> FALSE, source |-> "transcript"]

\* visual observations (analyze_frames_with_vision's "visual_observations")
ObsVisual ==
    [practice_title |-> "Turn Taking", quote |-> Absent,
     is_positive |-> FALSE, source |-> "visual"]

\* a visual observation naming a practice that is not in the catalog
ObsUnlisted ==
    [practice_title |-> "Unlisted", quote |-> Absent,
     is_positive |-> TRUE, source |-> "visual"]

\* the "annotations" arrays considered: empty, MaxTObs observations with a
\* quote, and the same with a null quote in the last one
TranscriptObservations ==
    {<<>>, Repeat(ObsQuoted, MaxTObs), Append(Repeat(ObsQuoted, MaxTObs - 1), ObsNullQuote)}

\* the "visual_observations" arrays considered
VisualObservations ==
    {Repeat(ObsVisual, MaxVObs), Append(Repeat(ObsVisual, MaxVObs - 1), ObsUnlisted)}

\* what transcribe_api / transcribe_local return
Transcribed ==
    [text |-> <<"h", "i", " ", "o", "k">>,
     segments |-> << [text |-> <<" ", "h", "i">>, start |-> 0, end |-> 120],
                     [text |-> <<"o", "k", " ">>, start |-> 120, end |-> 300] >>,
     language |-> "en", method |-> "none", processing_time |-> 3]

NotReached ==
    [extract |-> "ok", transcribe |-> "ok", transcript |-> Transcribed, frames |-> 0,
     vision |-> "skipped", vobs |-> <<>>, analysis |-> "skipped", tobs |-> <<>>]

\* behaviours of the transcript analysis call
AnalysisOutcomes(o) ==
    {[o EXCEPT !.analysis = a] : a \in {"exception", "unparseable"}}
    \cup {[o EXCEPT !.analysis = "ok", !.tobs = t] : t \in TranscriptObservations}

\* behaviours of the sampler (no frame, or MaxFrames frames) and of the
\* vision call
VisionOutcomes(o) ==
    {o}
    \cup {[o EXCEPT !.frames = MaxFrames, !.vision = v] : v \in {"exception", "unparseable"}}
    \cup {[o EXCEPT !.frames = MaxFrames, !.vision = "ok", !.vobs = t] :
              t \in VisualObservations}

\* every way the external calls of one analyze_video can go; calls that are
\* not reached keep the value of NotReached.  The local model detects the
\* language 'en' or 'es'.
Outcomes(enhanced) ==
    {[NotReached EXCEPT !.extract = "fail"], [NotReached EXCEPT !.transcribe = "fail"]}
    \cup (IF enhanced
          THEN UNION {AnalysisOutcomes(o) : o \in VisionOutcomes(NotReached)}
          ELSE {NotReached, [NotReached EXCEPT !.transcript.language = "es"]})

\* ----------------------------------------------------------------- state
VARIABLES
    videos,              \* videos table: id -> row
    transcripts,         \* transcripts table: video id -> row (exists flag)
    annotations,         \* annotations table: set of rows; the primary key of a
                         \* row is <<run, index>>, <<0, n>> for the n-th created
                         \* through the annotations endpoint
    audit_logs,          \* number of 'ai_analysis' rows of the audit_logs table
    tmp_audio,           \* worker -> the audio file of its analyze_video call is on disk
    requests,            \* analyze requests issued so far
    manual_ops,          \* annotation requests issued so far
    pc,                  \* worker -> position in the analyze handler
    req,                 \* worker -> request (run id, video_id, options)
    video_metadata,      \* worker -> video.video_metadata of its Video instance
    written,             \* worker -> progress writes of this request, in order
    results,             \* worker -> dict returned by analyzer.analyze_video
    outcome,             \* worker -> what the external calls did
    deleted,             \* worker -> len(old_annotations) deleted by this request
    pending,             \* worker -> objects in db.session not yet committed
    response,            \* worker -> HTTP status of the response, 0 before it
    start_time,          \* SpecResolver: the loop's local start_time, unrounded
    resolution,          \* SpecResolver: the last resolution: inputs, result, and
                         \* whether the one before left start_time non-zero
    sampled,             \* SpecSampler: the sampler call made: inputs and result
    call,                \* SpecAnalyzer: the analyze_video call made: inputs and result
    whisper_loads,       \* whisper.load_model calls made by the process so far
    last_written,        \* video id -> the progress a run wrote for it last
    status_reply,        \* SpecStatus: the last answer of the status endpoint
    prompted             \* SpecPrompts: the analysis call made: inputs, and the
                         \* criteria and frames put into its prompt

\* state of the endpoints
run_vars == <<videos, transcripts, annotations, audit_logs, tmp_audio,
              requests, manual_ops, pc, req, video_metadata, written, results, outcome,
              deleted, pending, response, whisper_loads, last_written>>

\* state of the specifications of single functions
unit_vars == <<start_time, resolution, sampled, call, status_reply, prompted>>

vars == <<run_vars, unit_vars>>

NoSampling ==
    [strategy |-> "none", file |-> [total_frames |-> 0, fps |-> 0, unreadable |-> {}],
     num_frames |-> 0, interval_seconds |-> 0, starts |-> <<>>,
     frames |-> <<>>, visited |-> <<>>]

NoResolution ==
    [ann |-> [quote |-> Absent], segments |-> <<>>, duration |-> NoneDuration,
     ann_index |-> 0, total |-> 0, previous |-> FALSE, start_time |-> 0]

NoPrompt ==
    [call |-> "none", best_practices |-> <<>>, video_category |-> NoCategory,
     frames_base64 |-> <<>>, practices |-> <<>>, sample_frames |-> <<>>]

NoMetadata == [progress |-> -1, stage |-> <<>>]

\* progress_data before the metadata is parsed
NotStarted == [progress |-> 0, stage |-> <<"Not started">>]

NoReply == [video_id |-> 0, code |-> 0, progress |-> 0, stage |-> <<>>]

NoRequest == [run |-> 0, video_id |-> 0, use_enhanced |-> "false", generate_annotations |-> FALSE]

NoResults ==
    [method |-> "none", status |-> "none", keys |-> {}, transcript |-> NoTranscriptResult,
     frames_extracted |-> 0, visual_annotations |-> <<>>, annotations |-> <<>>,
     stages |-> <<>>, audio_left |-> FALSE, transcriber |-> "none", model_loads |-> 0]

NoCall ==
    [api_key |-> "none", use_enhanced |-> "false", use_enhanced_arg |-> "none",
     libs |-> LibsInstalled, results |-> NoResults]

NoTranscriptRow ==
    [exists |-> FALSE, content |-> <<>>, method |-> "none", language |-> "none",
     processing_time |-> 0, run |-> 0]

\* the session's uncommitted transcript row, and whether it is an INSERT
EmptySession == [transcript |-> NoTranscriptRow, insert |-> FALSE]

\* progress checkpoints written by the analyze handler
Metadata(progress, stage) == [progress |-> progress, stage |-> stage]

DownloadedCheckpoint == Metadata(10, <<"Video downloaded, starting analysis...">>)

InitialCheckpoint == Metadata(5, <<"Initializing AI analysis...">>)

TranscribingCheckpoint == Metadata(15, <<"Transcribing audio with Whisper...">>)

AnalyzedCheckpointAlways(res) ==
    Metadata(85, <<"Analyzed audio + ", res.frames_extracted, " video frames">>)

AnalyzedCheckpoint(res) ==
    IF "frames_extracted" \in res.keys /\ res.frames_extracted > 0
    THEN Metadata(85, <<"Analyzed audio + ", res.frames_extracted, " video frames">>)
    ELSE Metadata(85, <<"Audio analysis complete">>)

GeneratingCheckpointEarly == Metadata(80, <<"Generating annotations...">>)

GeneratingCheckpoint == Metadata(90, <<"Generating annotations...">>)

CompleteCheckpoint == Metadata(100, <<"Complete!">>)

\* the row create_annotation inserts (annotations.py lines 29-40)
ManualAnnotation(n, video_id, annotation_type) ==
    [id |-> <<0, n>>, video_id |-> video_id, reviewer_id |-> UserId, start_time |-> 10,
     practice_category |-> "general", practice_id |-> NoPractice,
     annotation_type |-> annotation_type, status |-> "approved", run |-> 0, obs |-> 0]

Init ==
    /\ videos = [v \in VideoIds |->
                   IF v = 1
                   THEN [source_type |-> "local", duration |-> NoneDuration,
                         category |-> "functional_routines",
                         is_analyzed |-> FALSE, analysis_status |-> "pending"]
                   ELSE [source_type |-> "url", duration |-> NoneDuration,
                         category |-> NoCategory,
                         is_analyzed |-> FALSE, analysis_status |-> "pending"]]
    /\ transcripts = [v \in VideoIds |-> NoTranscriptRow]
    /\ annotations = {ManualAnnotation(0, 1, "manual")}
    /\ audit_logs = 0
    /\ tmp_audio = [w \in Workers |-> FALSE]
    /\ requests = 0
    /\ manual_ops = 0
    /\ pc = [w \in Workers |-> "idle"]
    /\ req = [w \in Workers |-> NoRequest]
    /\ video_metadata = [w \in Workers |-> NoMetadata]
    /\ written = [w \in Workers |-> <<>>]
    /\ results = [w \in Workers |-> NoResults]
    /\ outcome = [w \in Workers |-> NotReached]
    /\ deleted = [w \in Workers |-> 0]
    /\ pending = [w \in Workers |-> EmptySession]
    /\ response = [w \in Workers |-> 0]
    /\ start_time = <<0, 1>>
    /\ resolution = NoResolution
    /\ sampled = NoSampling
    /\ call = NoCall
    /\ whisper_loads = 0
    /\ last_written = [v \in VideoIds |-> NoMetadata]
    /\ status_reply = NoReply
    /\ prompted = NoPrompt

\* ------------------------------------------------- analyze handler helpers
\* frame_count / fps of the video's file as cv2 reports it (None when fps = 0)
ProbedDuration(video_id) == IF video_id = 1 THEN 406 ELSE NoneDuration

\* video.video_metadata = json.dumps(...): sets the attribute of this
\* request's Video instance
WriteProgress(w, vid, m) ==
    /\ video_metadata' = [video_metadata EXCEPT ![w] = m]
    /\ last_written' = [last_written EXCEPT ![vid] = m]
    /\ written' = [written EXCEPT ![w] = Append(@, m)]

Respond(w, code) ==
    /\ response' = [response EXCEPT ![w] = code]
    /\ pc' = [pc EXCEPT ![w] = "done"]

\* Annotation.query.filter_by(video_id=..., annotation_type='ai_generated').all()
OldAnnotationsNone(video_id) == {}

OldAnnotationsAnyType(video_id) == {a \in annotations : a.video_id = video_id}

OldAnnotations(video_id) ==
    {a \in annotations : a.video_id = video_id /\ a.annotation_type = "ai_generated"}

\* index of the first observation whose handling raises, 0 when none does
FirstRaising(anns) ==
    LET bad == {i \in 1..Len(anns) : QuoteRaises(anns[i])}
    IN  IF bad = {} THEN 0 ELSE CHOOSE i \in bad : \A j \in bad : i <= j

\* the Annotation(...) built for results['annotations'][i] (ann_index = i - 1)
NewAnnotation(r, anns, i, segments, video) ==
    [id |-> <<r.run, i>>,
     video_id |-> r.video_id,
     reviewer_id |-> UserId,
     start_time |-> ResolveStart(anns[i], segments, video.duration, i - 1, Len(anns)),
     practice_category |-> IF video.category = NoCategory THEN "general" ELSE video.category,
     practice_id |-> PracticeByTitle(anns[i].practice_title),
     annotation_type |-> "ai_generated",
     status |-> IF anns[i].is_positive THEN "draft" ELSE "needs_review",
     run |-> r.run,
     obs |-> i]

\* rows inserted by a flush of the session's new annotations
Inserted(news) == {news[i] : i \in 1..Len(news)}

\* the INSERT of a transcript row violates the unique video_id constraint
CommitConflict(w) == pending[w].insert /\ transcripts[req[w].video_id].exists

\* an early return of the handler: the response, nothing written
RejectMarkingFailed(w, code) ==
    /\ Respond(w, code)
    /\ videos' = [v \in VideoIds |-> [videos[v] EXCEPT !.analysis_status = "failed"]]
    /\ UNCHANGED <<video_metadata, written, last_written>>

Reject(w, code) ==
    /\ Respond(w, code)
    /\ UNCHANGED <<videos, video_metadata, written, last_written>>

\* ------------------------------------------------------- analyze handler
\* lines 26-107: look the video up, download a URL video, locate the file
AnalyzeRequest(w, limit) ==
    /\ UNCHANGED unit_vars
    /\ pc[w] = "idle"
    /\ requests < limit
    /\ requests' = requests + 1
    /\ \E vid \in VideoIds \cup {MissingVideoId}, ue \in {"true", "false"}, ga \in BOOLEAN :
         /\ req' = [req EXCEPT ![w] = [run |-> requests + 1, video_id |-> vid,
                                       use_enhanced |-> ue, generate_annotations |-> ga]]
         /\ IF vid \notin VideoIds
            THEN Reject(w, 404)
            ELSE IF videos[vid].source_type = "url"
            THEN \E downloaded \in BOOLEAN :
                   IF downloaded
                   THEN /\ videos' = [videos EXCEPT ![vid].source_type = "local",
                                                 ![vid].duration = ProbedDuration(vid)]
                        /\ WriteProgress(w, vid, DownloadedCheckpoint)
                        /\ pc' = [pc EXCEPT ![w] = "located"]
                        /\ UNCHANGED response
                   ELSE Reject(w, 500)
            ELSE \E on_disk \in BOOLEAN :
                   IF on_disk
                   THEN /\ pc' = [pc EXCEPT ![w] = "located"]
                        /\ UNCHANGED <<videos, video_metadata, written, last_written, response>>
                   ELSE Reject(w, 404)
    /\ UNCHANGED <<transcripts, annotations, audit_logs, tmp_audio,
                   manual_ops, results, outcome, deleted, pending, whisper_loads>>

\* lines 109-137: probe a missing duration, set 'processing', progress 5
StartRun(w) ==
    /\ UNCHANGED unit_vars
    /\ pc[w] = "located"
    /\ LET vid == req[w].video_id
           d == IF videos[vid].duration \in {NoneDuration, 0}
                THEN ProbedDuration(vid) ELSE videos[vid].duration
       IN  videos' = [videos EXCEPT ![vid].duration = d,
                                    ![vid].analysis_status = "processing"]
    /\ WriteProgress(w, req[w].video_id, InitialCheckpoint)
    /\ pc' = [pc EXCEPT ![w] = "started"]
    /\ UNCHANGED <<transcripts, annotations, audit_logs, tmp_audio,
                   requests, manual_ops, req, results, outcome, deleted, pending, response,
                   whisper_loads>>

\* the transcript row lines 169-189 leave in the session
TranscriptToSave(r, res) ==
    LET td == res.transcript
        old == transcripts[r.video_id]
    IN  IF "transcript" \notin res.keys THEN NoTranscriptRow
        ELSE IF old.exists
        THEN [old EXCEPT !.content = td.text, !.method = td.method,
                         !.processing_time = td.processing_time, !.run = r.run]
        ELSE [exists |-> TRUE, content |-> td.text, method |-> td.method,
              language |-> td.language, processing_time |-> td.processing_time,
              run |-> r.run]

\* lines 129-131 and 141-200: progress 15, AIAnalyzer(api_key,
\* use_enhanced).analyze_video(...), progress 85, progress 90, stage the
\* transcript, delete the old AI annotations.  analyze_video catches every
\* exception, so the block always runs to its end.
RunAnalyzer(w) ==
    /\ UNCHANGED unit_vars
    /\ pc[w] = "started"
    /\ LET self == AnalyzerInit(LibsInstalled, "set", req[w].use_enhanced)
           vid == req[w].video_id
           old == OldAnnotations(vid)
       IN  \E o \in Outcomes(req[w].use_enhanced = "true") :
             LET res == AnalyzeVideo(self, LibsInstalled, req[w].use_enhanced, o)
                 row == TranscriptToSave(req[w], res)
             IN  /\ results' = [results EXCEPT ![w] = res]
                 /\ outcome' = [outcome EXCEPT ![w] = o]
                 /\ deleted' = [deleted EXCEPT ![w] = Cardinality(old)]
                 /\ whisper_loads' = whisper_loads + res.model_loads
                 /\ tmp_audio' = [tmp_audio EXCEPT ![w] = res.audio_left]
                 /\ video_metadata' = [video_metadata EXCEPT ![w] = GeneratingCheckpoint]
                 /\ last_written' = [last_written EXCEPT ![vid] = GeneratingCheckpoint]
                 /\ written' = [written EXCEPT ![w] =
                                  @ \o <<TranscribingCheckpoint, AnalyzedCheckpoint(res),
                                         GeneratingCheckpoint>>]
                 /\ IF old # {}
                    THEN /\ annotations' = annotations \ old
                         /\ transcripts' = IF row.exists
                                           THEN [transcripts EXCEPT ![vid] = row]
                                           ELSE transcripts
                         /\ UNCHANGED pending
                    ELSE /\ pending' = [pending EXCEPT ![w] =
                                          [transcript |-> row,
                                           insert |-> row.exists /\ ~transcripts[vid].exists]]
                         /\ UNCHANGED <<annotations, transcripts>>
    /\ pc' = [pc EXCEPT ![w] = "creating"]
    /\ UNCHANGED <<videos, audit_logs, requests, manual_ops, req,
                   response>>

\* lines 202-318: build one annotation per observation, mark the video
\* completed with progress 100, commit, add the audit row, respond 200.
\* lines 320-328 on an exception: mark the video failed and commit the
\* session, re-raise, roll back, respond 500; when that commit raises too only
\* the rollback happens.
CreateAnnotations(w) ==
    /\ UNCHANGED unit_vars
    /\ pc[w] = "creating"
    /\ LET vid == req[w].video_id
           res == results[w]
           anns == IF req[w].generate_annotations /\ "annotations" \in res.keys
                   THEN res.annotations ELSE <<>>
           segments == IF "transcript" \in res.keys THEN res.transcript.segments ELSE <<>>
           k == FirstRaising(anns)
           n == IF k = 0 THEN Len(anns) ELSE k - 1
           news == [i \in 1..n |-> NewAnnotation(req[w], anns, i, segments, videos[vid])]
           row == pending[w].transcript
       IN  IF CommitConflict(w)
           THEN /\ Respond(w, 500)
                /\ UNCHANGED <<videos, transcripts, annotations,
                               video_metadata, written, last_written, audit_logs>>
           ELSE /\ annotations' = annotations \cup Inserted(news)
                /\ transcripts' = IF row.exists THEN [transcripts EXCEPT ![vid] = row]
                                  ELSE transcripts
                /\ IF k # 0
                   THEN /\ videos' = [videos EXCEPT ![vid].analysis_status = "failed"]
                        /\ Respond(w, 500)
                        /\ UNCHANGED <<video_metadata, written, last_written, audit_logs>>
                   ELSE /\ videos' = [videos EXCEPT ![vid].is_analyzed = TRUE,
                                                    ![vid].analysis_status = "completed"]
                        /\ WriteProgress(w, vid, CompleteCheckpoint)
                        /\ audit_logs' = audit_logs + 1
                        /\ Respond(w, 200)
    /\ pending' = [pending EXCEPT ![w] = EmptySession]
    /\ UNCHANGED <<tmp_audio, requests, manual_ops, req, results, outcome, deleted,
                   whisper_loads>>

\* the request is over: its session and Video instance are discarded
Finish(w) ==
    /\ UNCHANGED unit_vars
    /\ pc[w] = "done"
    /\ pc' = [pc EXCEPT ![w] = "idle"]
    /\ req' = [req EXCEPT ![w] = NoRequest]
    /\ video_metadata' = [video_metadata EXCEPT ![w] = NoMetadata]
    /\ written' = [written EXCEPT ![w] = <<>>]
    /\ results' = [results EXCEPT ![w] = NoResults]
    /\ outcome' = [outcome EXCEPT ![w] = NotReached]
    /\ deleted' = [deleted EXCEPT ![w] = 0]
    /\ pending' = [pending EXCEPT ![w] = EmptySession]
    /\ response' = [response EXCEPT ![w] = 0]
    /\ tmp_audio' = [tmp_audio EXCEPT ![w] = FALSE]
    /\ UNCHANGED <<videos, transcripts, annotations, audit_logs, requests, manual_ops,
                   whisper_loads, last_written>>

RunStep(w, limit) ==
    \/ AnalyzeRequest(w, limit)
    \/ StartRun(w)
    \/ RunAnalyzer(w)
    \/ CreateAnnotations(w)
    \/ Finish(w)

\* ------------------------------------------------- annotation endpoints
UnchangedByAnnotationRequest ==
    UNCHANGED <<unit_vars, videos, transcripts, audit_logs, tmp_audio, requests, pc, req,
                video_metadata, written, results, outcome, deleted, pending, response,
                whisper_loads, last_written>>

\* annotations.py create_annotation
CreateAnnotation ==
    /\ manual_ops < MaxManualOps
    /\ manual_ops' = manual_ops + 1
    /\ \E vid \in VideoIds, type \in {"manual", "ai_generated"} :
         annotations' = annotations \cup {ManualAnnotation(manual_ops + 1, vid, type)}
    /\ UnchangedByAnnotationRequest

\* annotations.py update_annotation (here: the status field)
UpdateAnnotation ==
    /\ manual_ops < MaxManualOps
    /\ manual_ops' = manual_ops + 1
    /\ \E a \in annotations :
         /\ a.status # "rejected"
         /\ annotations' = (annotations \ {a}) \cup {[a EXCEPT !.status = "rejected"]}
    /\ UnchangedByAnnotationRequest

\* annotations.py delete_annotation
DeleteAnnotation ==
    /\ manual_ops < MaxManualOps
    /\ manual_ops' = manual_ops + 1
    /\ \E a \in annotations : annotations' = annotations \ {a}
    /\ UnchangedByAnnotationRequest

\* analyze requests interleaved with annotation requests
Next ==
    \/ \E w \in Sequential : RunStep(w, MaxRequests)
    \/ CreateAnnotation
    \/ UpdateAnnotation
    \/ DeleteAnnotation

Spec == Init /\ [][Next]_vars

\* analyze requests served one after another, no annotation request
NextRuns == \E w \in Sequential : RunStep(w, MaxRuns)

SpecRuns == Init /\ [][NextRuns]_vars

\* ------------------------------------------- the timestamp resolver alone
\* values of ann_data['quote']: no key, '', a filler that a segment contains,
\* a quote some segments contain, a quote no segment contains
ResolverQuotes ==
    { Absent, Str(<<>>), Str(<<"N", "o", "n", "e">>), Str(<<" ", "O", "k">>), Str(<<"z">>) }

ResolverObservations == {[ObsQuoted EXCEPT !.quote = q] : q \in ResolverQuotes}

\* values of results['transcript']['segments']
ResolverSegments ==
    { <<>>,
      << [text |-> <<"O", "k", " ", "g", "o">>, start |-> 0, end |-> 350] >>,
      << [text |-> <<" ", "h", "i">>, start |-> 0, end |-> 1206],
         [text |-> <<"O", "K", " ">>, start |-> 1206, end |-> 2000] >>,
      << [text |-> <<"o", "k">>, start |-> 350, end |-> 400],
         [text |-> <<"n", "o", "n", "e", " ", "o", "k">>, start |-> 120, end |-> 350] >> }

\* values of video.duration: NULL, 0.0, 30.06
ResolverDurations == {NoneDuration, 0, 3006}

\* lines 234-273 for one ann_data of the loop
Resolve ==
    /\ \E ann \in ResolverObservations, segments \in ResolverSegments,
          duration \in ResolverDurations, total \in 1..MaxTotal :
         \E ann_index \in 0..(total - 1) :
           LET u == UnroundedStart(StartTimeAtEntry(start_time), ann, segments, duration,
                                   ann_index, total)
           IN  /\ start_time' = u
               /\ resolution' = [ann |-> ann, segments |-> segments, duration |-> duration,
                                 ann_index |-> ann_index, total |-> total,
                                 previous |-> start_time[1] # 0,
                                 start_time |-> RoundedStart(u)]
    /\ UNCHANGED <<run_vars, sampled, call, status_reply, prompted>>

NextResolver == Resolve

SpecResolver == Init /\ [][NextResolver]_vars

\* -------------------------------------------- concurrent analyze requests
\* the video the concurrent requests are for
ConcurrentVideos == {1}

\* the mode the concurrent requests ask for: local
ConcurrentModes == {"false"}

\* an analyze request for that video in that mode
ConcurrentRequest(w) ==
    /\ AnalyzeRequest(w, MaxConcurrent)
    /\ req'[w].video_id \in ConcurrentVideos
    /\ req'[w].use_enhanced \in ConcurrentModes

\* two handlers serve analyze requests for one video at the same time
NextConcurrent ==
    \E w \in Workers :
        \/ ConcurrentRequest(w)
        \/ StartRun(w)
        \/ RunAnalyzer(w)
        \/ CreateAnnotations(w)
        \/ Finish(w)

SpecConcurrent == Init /\ [][NextConcurrent]_vars

\* ------------------------------------------------------ status endpoint
\* columns of the videos table that models.py maps: the attributes of a Video
\* instance that Video.query.get loads in a new request
VideoColumns ==
    {"id", "title", "description", "source_type", "file_path", "url", "duration",
     "thumbnail_path", "uploader_id", "category", "is_analyzed", "analysis_status",
     "created_at", "updated_at"}

\* lines 372-383: progress_data for the metadata read from the instance
StatusProgress(metadata) == IF metadata = NoMetadata THEN NotStarted ELSE metadata

\* get_analysis_status in a request of its own: reading video.video_metadata
\* of the loaded instance raises AttributeError when no column maps it, and
\* the handler's except answers 500
GetAnalysisStatus ==
    /\ \E video_id \in VideoIds \cup {MissingVideoId} :
         status_reply' =
             IF video_id \notin VideoIds
             THEN [video_id |-> video_id, code |-> 404, progress |-> 0, stage |-> <<>>]
             ELSE IF "video_metadata" \notin VideoColumns
             THEN [video_id |-> video_id, code |-> 500, progress |-> 0, stage |-> <<>>]
             ELSE [video_id |-> video_id, code |-> 200,
                   progress |-> StatusProgress(NoMetadata).progress,
                   stage |-> StatusProgress(NoMetadata).stage]
    /\ UNCHANGED <<run_vars, start_time, resolution, sampled, call, prompted>>

NextStatus ==
    \/ \E w \in Sequential : RunStep(w, MaxRequests)
    \/ GetAnalysisStatus

SpecStatus == Init /\ [][NextStatus]_vars

\* ------------------------------------------------- the analysis calls alone
\* descriptions of criteria: two that mention a visual keyword in some letter
\* case, two that do not ('eye' alone is no keyword)
PracticeKinds ==
    [v1 |-> [category |-> "discrete_trial", description |-> <<"a", "t", " ", "E", "y", "e", " ", "l", "e", "v", "e", "l">>],
     n1 |-> [category |-> "discrete_trial", description |-> <<"w", "a", "i", "t">>],
     v2 |-> [category |-> "pivotal_response", description |-> <<"B", "e", " ", "r", "e", "a", "d", "y">>],
     n2 |-> [category |-> "pivotal_response", description |-> <<"e", "y", "e">>]]

\* best_practices lists: a visual criteria of another category, b non-visual
\* and c visual criteria of discrete_trial, one non-visual of another category
PracticeLists ==
    {LET kinds == Repeat("v2", a) \o Repeat("n1", b) \o Repeat("v1", c) \o <<"n2">>
     IN  [i \in 1..Len(kinds) |->
            [id |-> i, category |-> PracticeKinds[kinds[i]].category,
             description |-> PracticeKinds[kinds[i]].description]] :
       a \in 0..2, b \in 0..2, c \in 0..MaxVisual}

PromptCategories == {NoCategory, "discrete_trial", "pivotal_response"}

\* analyze_transcript(transcript, best_practices, video_category) with a client
AnalyzeTranscript ==
    /\ prompted = NoPrompt
    /\ \E best_practices \in PracticeLists, video_category \in PromptCategories :
         prompted' = [call |-> "analyze_transcript", best_practices |-> best_practices,
                      video_category |-> video_category, frames_base64 |-> <<>>,
                      practices |-> TranscriptPractices(best_practices, video_category),
                      sample_frames |-> <<>>]
    /\ UNCHANGED <<run_vars, start_time, resolution, sampled, call, status_reply>>

\* analyze_frames_with_vision(frames_base64, best_practices, video_category)
\* with a client and at least one frame; frame i of the list is the number i
AnalyzeFramesWithVision ==
    /\ prompted = NoPrompt
    /\ \E best_practices \in PracticeLists, video_category \in PromptCategories,
          m \in 1..MaxSampled :
         prompted' = [call |-> "analyze_frames_with_vision",
                      best_practices |-> best_practices,
                      video_category |-> video_category,
                      frames_base64 |-> [i \in 1..m |-> i],
                      practices |-> VisualPractices(best_practices, video_category),
                      sample_frames |-> VisionFrames([i \in 1..m |-> i])]
    /\ UNCHANGED <<run_vars, start_time, resolution, sampled, call, status_reply>>

NextPrompts ==
    \/ AnalyzeTranscript
    \/ AnalyzeFramesWithVision

SpecPrompts == Init /\ [][NextPrompts]_vars

\* ------------------------------------------------------ AIAnalyzer alone
\* AIAnalyzer(api_key, use_enhanced).analyze_video(..., use_enhanced_arg) for
\* every api_key (None, '', a key), every set of installed libraries and every
\* behaviour of the external calls
Analyze ==
    /\ call = NoCall
    /\ \E api_key \in {"none", "empty", "set"}, use_enhanced \in {"true", "false"},
          use_enhanced_arg \in {"none", "true", "false"},
          libs \in [openai : BOOLEAN, whisper : BOOLEAN, cv2 : BOOLEAN],
          o \in Outcomes(TRUE) \cup Outcomes(FALSE) :
         call' = [api_key |-> api_key, use_enhanced |-> use_enhanced,
                  use_enhanced_arg |-> use_enhanced_arg, libs |-> libs,
                  results |-> AnalyzeVideo(AnalyzerInit(libs, api_key, use_enhanced), libs,
                                           use_enhanced_arg, o)]
    /\ UNCHANGED <<run_vars, start_time, resolution, sampled, status_reply, prompted>>

NextAnalyzer == Analyze

SpecAnalyzer == Init /\ [][NextAnalyzer]_vars

\* ---------------------------------------------------- the samplers alone
\* video files: frame count, fps, frames that cannot be read
SamplerFiles ==
    [total_frames : 0..MaxTotalFrames, fps : {0, 1, 2},
     unreadable : SUBSET (0..(MaxTotalFrames - 1))]

\* segment starts of a transcript, in seconds
SamplerStarts == {<<>>, <<0>>, <<1>>, <<0, 1>>, <<0, 3>>, <<1, 1>>, <<0, 1, 3>>}

RecordSample(strategy, file, num_frames, interval_seconds, starts, got) ==
    /\ sampled = NoSampling
    /\ sampled' = [strategy |-> strategy, file |-> file, num_frames |-> num_frames,
                    interval_seconds |-> interval_seconds, starts |-> starts,
                    frames |-> got.frames, visited |-> got.visited]
    /\ UNCHANGED <<run_vars, start_time, resolution, call, status_reply, prompted>>

SampleFrames ==
    \E file \in SamplerFiles, num_frames \in 0..MaxNumFrames :
        RecordSample("extract_frames", file, num_frames, 0, <<>>, ExtractFrames(file, num_frames))

SampleEveryNSeconds ==
    \E file \in SamplerFiles, interval_seconds \in 0..2 :
        RecordSample("extract_frames_every_n_seconds", file, 0, interval_seconds, <<>>,
                ExtractFramesEveryNSeconds(file, interval_seconds))

SampleKeyFrames ==
    \E file \in SamplerFiles, starts \in SamplerStarts, num_frames \in 0..MaxNumFrames :
        RecordSample("extract_key_frames", file, num_frames, 0, starts,
                ExtractKeyFrames(file, starts, num_frames))

NextSampler ==
    \/ SampleFrames
    \/ SampleEveryNSeconds
    \/ SampleKeyFrames

SpecSampler == Init /\ [][NextSampler]_vars

\* =================================================================== claims
Reached(w) == pc[w] \in {"creating", "done"}

\* the analyzer call of w has returned and the request has been answered
Ended(w) == pc[w] = "done" /\ results[w].status # "none"

\* the step in which worker w leaves the try block of the handler
Ends(w) == pc[w] = "creating" /\ pc'[w] = "done"

Percentages(writes) == [i \in 1..Len(writes) |-> writes[i].progress]

\* progress writes since the run set 'processing' (the download of a URL
\* video writes its checkpoint before the run starts)
RunWritten(w) ==
    IF written[w] # <<>> /\ written[w][1] = DownloadedCheckpoint
    THEN Tail(written[w]) ELSE written[w]

\* annotations of video v in the table that were produced by analysis runs
RunProduced(v) ==
    {a \in annotations : a.video_id = v /\ a.annotation_type = "ai_generated" /\ a.run # 0}

\* C1: whenever analyze_video returns after a successful audio extraction,
\* the temporary audio file of that call is gone, success or error.
C1_AudioFileRemoved ==
    \A w \in Workers :
        (Reached(w) /\ "audio_extracted" \in results[w].keys) => ~tmp_audio[w]

\* C2: a run whose audio extraction or transcription failed ends with
\* analysis_status 'failed', leaves is_analyzed as it was and answers with an
\* error.
C2_FatalFailureAborts ==
    [][\A w \in Workers :
          (Ends(w) /\ (outcome[w].extract = "fail" \/ outcome[w].transcribe = "fail"))
          => LET v == req[w].video_id
             IN  /\ videos'[v].analysis_status = "failed"
                 /\ videos'[v].is_analyzed = videos[v].is_analyzed
                 /\ response'[w] >= 400]_vars

\* C3: when a run fails, the stored progress is the last checkpoint written
\* before the failing stage: 15 when the analyzer pipeline failed, 90 when
\* annotation creation failed.
C3_ProgressKeptOnFailure ==
    \A w \in Workers :
        Ended(w) =>
            /\ results[w].status = "error" => video_metadata[w] = TranscribingCheckpoint
            /\ (results[w].status = "success" /\ response[w] = 500)
                   => video_metadata[w] = GeneratingCheckpoint

\* C4: when a run with annotation generation completes successfully, the
\* run-produced ai_generated annotations of its video are exactly its own, one
\* per observation: annotations of earlier runs are gone, none is duplicated.
C4_ReplaceNotAppend ==
    [][\A w \in Workers :
          (Ends(w) /\ response'[w] = 200 /\ results[w].status = "success"
             /\ req[w].generate_annotations)
          => LET v == req[w].video_id
                 mine == {a \in annotations' : a.video_id = v
                                               /\ a.annotation_type = "ai_generated"
                                               /\ a.run # 0}
             IN  /\ \A a \in mine : a.run = req[w].run
                 /\ {a.obs : a \in mine} = 1..Len(results[w].annotations)
                 /\ Cardinality(mine) = Len(results[w].annotations)]_vars

C4_Witness ==
    \E w \in Workers :
        /\ pc[w] = "done" /\ response[w] = 200 /\ req[w].generate_annotations
        /\ manual_ops = 0 /\ deleted[w] >= 1
        /\ Len(results[w].annotations) >= 1
        /\ Cardinality(RunProduced(req[w].video_id)) = Len(results[w].annotations)

\* C5: a step of the analyze handler on video v leaves every manual
\* annotation and every annotation of another video in the table unchanged,
\* and adds no manual annotation and no annotation of another video.
C5_RunKeepsManualAnnotations ==
    [][\A w \in Workers :
          pc'[w] # pc[w]
          => LET v == IF pc[w] = "idle" THEN req'[w].video_id ELSE req[w].video_id
             IN  /\ \A a \in annotations :
                       (a.annotation_type = "manual" \/ a.video_id # v) => a \in annotations'
                 /\ \A a \in annotations' \ annotations :
                       a.annotation_type # "manual" /\ a.video_id = v]_vars

C5_Witness ==
    \E w \in Workers :
        /\ pc[w] = "creating" /\ deleted[w] >= 1
        /\ \E a \in annotations : a.annotation_type = "manual" /\ a.video_id = req[w].video_id
        /\ OldAnnotations(req[w].video_id) = {}

\* C6: in an enhanced run whose vision call fails while extraction,
\* transcription and transcript analysis succeed, the result has status
\* success, no visual observation and every transcript observation.
C6_VisionFailureAbsorbed ==
    \A w \in Workers :
        (Reached(w) /\ req[w].use_enhanced = "true"
           /\ outcome[w].extract = "ok" /\ outcome[w].transcribe = "ok"
           /\ outcome[w].vision \in {"exception", "unparseable"}
           /\ outcome[w].analysis = "ok")
        => /\ results[w].status = "success"
           /\ \A i \in 1..Len(results[w].annotations) :
                  results[w].annotations[i].source # "visual"
           /\ results[w].annotations = outcome[w].tobs

C6_Witness ==
    \E w \in Workers :
        /\ Reached(w) /\ req[w].use_enhanced = "true"
        /\ outcome[w].vision = "exception" /\ outcome[w].analysis = "ok"
        /\ Len(outcome[w].tobs) >= 1
        /\ results[w].status = "success"

\* C7: in an enhanced run whose transcript analysis call fails or returns an
\* unparseable response, the result has status success, keeps the transcript
\* and keeps the visual observations as its annotations.
C7_TranscriptFailureAbsorbed ==
    \A w \in Workers :
        (Reached(w) /\ req[w].use_enhanced = "true"
           /\ outcome[w].extract = "ok" /\ outcome[w].transcribe = "ok"
           /\ outcome[w].analysis \in {"exception", "unparseable"})
        => /\ results[w].status = "success"
           /\ "transcript" \in results[w].keys
           /\ results[w].annotations = (IF outcome[w].vision = "ok" THEN outcome[w].vobs
                                        ELSE <<>>)

\* C8: a run that ends successfully has written exactly 5, 15, 85, 90, 100 in
\* this order, and when 100 is written every annotation of the run is in the
\* table.
C8_SuccessfulRunCheckpoints ==
    [][\A w \in Workers :
          (Ends(w) /\ response'[w] = 200)
          => /\ Percentages(RunWritten(w)) = <<5, 15, 85, 90>>
             /\ Percentages(RunWritten(w)') = <<5, 15, 85, 90, 100>>
             /\ LET expected == IF req[w].generate_annotations
                                THEN Len(results[w].annotations) ELSE 0
                    mine == {a \in annotations' : a.run = req[w].run}
                IN  {a.obs : a \in mine} = 1..expected]_vars

C8_Witness ==
    \E w \in Workers :
        /\ pc[w] = "done" /\ response[w] = 200 /\ results[w].status = "success"
        /\ req[w].generate_annotations /\ Len(results[w].annotations) >= 2
        /\ Percentages(RunWritten(w)) = <<5, 15, 85, 90, 100>>
        /\ Cardinality({a \in annotations : a.run = req[w].run}) >= 2

\* C9: within one analyze request every progress percentage written is in
\* [0,100] and not below the percentage written before it.
C9_ProgressMonotonic ==
    \A w \in Workers :
        /\ \A i \in 1..Len(written[w]) :
               written[w][i].progress >= 0 /\ written[w][i].progress <= 100
        /\ \A i \in 2..Len(written[w]) :
               written[w][i].progress >= written[w][i - 1].progress

\* the frame-count label of checkpoint 85
IsFramesStage(stage) ==
    Len(stage) = 3 /\ stage[1] = "Analyzed audio + " /\ stage[3] = " video frames"

\* results.get('frames_extracted', 0)
FramesReported(res) == IF "frames_extracted" \in res.keys THEN res.frames_extracted ELSE 0

Label85Agrees(w) ==
    \A i \in 1..Len(written[w]) :
        written[w][i].progress = 85
        => /\ IsFramesStage(written[w][i].stage) <=> FramesReported(results[w]) > 0
           /\ IsFramesStage(written[w][i].stage)
                  => written[w][i].stage[2] = FramesReported(results[w])
           /\ ~IsFramesStage(written[w][i].stage)
                  => written[w][i].stage = <<"Audio analysis complete">>

\* C10 as stated: every (percentage, label) written is one of 5 'Initializing
\* AI analysis...', 15 'Transcribing audio...', 85 'Audio analysis complete' or
\* 'Analyzed audio + N video frames', 90 'Generating annotations...', 100
\* 'Complete!', and the 85 label names the frames exactly when N > 0.
C10_RecognizedCheckpointsAsStated ==
    \A w \in Workers :
        /\ \A i \in 1..Len(written[w]) :
               LET m == written[w][i]
               IN  \/ m = Metadata(5, <<"Initializing AI analysis...">>)
                   \/ m = Metadata(15, <<"Transcribing audio...">>)
                   \/ m.progress = 85
                   \/ m = Metadata(90, <<"Generating annotations...">>)
                   \/ m = Metadata(100, <<"Complete!">>)
        /\ Label85Agrees(w)

\* C10 amended: every (percentage, label) written during an analyze request
\* is 10 'Video downloaded, starting analysis...' (first write of a request
\* that downloaded a URL video), 5 'Initializing AI analysis...', 15
\* 'Transcribing audio with Whisper...', 85 'Audio analysis complete' or
\* 'Analyzed audio + N video frames', 90 'Generating annotations...' or 100
\* 'Complete!', and the 85 label names the frames exactly when N > 0.
C10_RecognizedCheckpoints ==
    \A w \in Workers :
        /\ \A i \in 1..Len(written[w]) :
               LET m == written[w][i]
               IN  \/ i = 1 /\ m = Metadata(10, <<"Video downloaded, starting analysis...">>)
                   \/ m = Metadata(5, <<"Initializing AI analysis...">>)
                   \/ m = Metadata(15, <<"Transcribing audio with Whisper...">>)
                   \/ m.progress = 85
                   \/ m = Metadata(90, <<"Generating annotations...">>)
                   \/ m = Metadata(100, <<"Complete!">>)
        /\ Label85Agrees(w)

C10_Witness ==
    \E w \in Workers :
        /\ pc[w] = "done" /\ response[w] = 200
        /\ Len(written[w]) = 6
        /\ written[w][1].progress = 10
        /\ IsFramesStage(written[w][4].stage)
        /\ results[w].frames_extracted = MaxFrames

\* ------------------------------------------------- claims on the resolver
Resolved == resolution.total > 0

\* the segments of the last resolution whose text contains the first 100
\* characters of its quote, case-insensitively
MatchingSegments ==
    {i \in 1..Len(resolution.segments) :
        Contains(LowerText(Strip(resolution.segments[i].text)),
                 LowerText(Prefix(QuoteText(resolution.ann), QuoteSearchLen)))}

\* the last resolution is one the fallback rule applies to
FallsBack ==
    \/ ~QuoteUsable(resolution.ann)
    \/ resolution.segments = <<>>
    \/ MatchingSegments = {}

DurationKnown == resolution.duration > 0

\* C11: a usable quote that some segment contains resolves to the start of
\* the first such segment in segment order, rounded to one decimal, also when
\* that start is 0.
C11_FirstMatchWins ==
    (Resolved /\ QuoteUsable(resolution.ann) /\ MatchingSegments # {})
    => \E i \in MatchingSegments :
          /\ \A j \in MatchingSegments : i <= j
          /\ resolution.start_time = RoundTenths(resolution.segments[i].start, 10)

\* C12 as stated: without a usable quote, without segments or without a
\* matching segment, start_time is exactly (index / max(1, total-1)) * duration
\* when total > 1 and the duration is known, and 0 otherwise.
C12_DistributionFallbackAsStated ==
    (Resolved /\ FallsBack)
    => IF resolution.total > 1 /\ DurationKnown
       THEN resolution.start_time * 10 * Max(1, resolution.total - 1)
                = resolution.ann_index * resolution.duration
       ELSE resolution.start_time = 0

\* C12 amended: in those cases start_time is (index / max(1, total-1)) *
\* duration rounded to one decimal when total > 1 and the duration is known,
\* and 0 otherwise.
C12_DistributionFallback ==
    (Resolved /\ FallsBack)
    => IF resolution.total > 1 /\ DurationKnown
       THEN resolution.start_time
                = RoundTenths(resolution.ann_index * resolution.duration,
                              10 * Max(1, resolution.total - 1))
       ELSE resolution.start_time = 0

\* a filler quote that a segment contains, resolved by the distribution to a
\* value that rounding moves up
C12_Witness ==
    /\ Resolved /\ resolution.ann.quote = Str(<<"N", "o", "n", "e">>)
    /\ \E i \in 1..Len(resolution.segments) :
           Contains(LowerText(resolution.segments[i].text), <<"n", "o", "n", "e">>)
    /\ resolution.total = 3 /\ resolution.ann_index = 2 /\ resolution.duration = 3006
    /\ resolution.start_time = 301

\* C17: the start_time of a created annotation is at least 0 and, when the
\* duration is known, at most the duration.
C17_StartTimeWithinDuration ==
    Resolved
    => /\ resolution.start_time >= 0
       /\ DurationKnown => resolution.start_time * 10 <= resolution.duration

\* C18: the result of a resolution is the one the same inputs give when
\* nothing was resolved before, whatever the resolution before it left behind.
C18_ResolutionDeterministic ==
    Resolved
    => resolution.start_time
           = RoundedStart(UnroundedStart(<<0, 1>>, resolution.ann, resolution.segments,
                                         resolution.duration, resolution.ann_index,
                                         resolution.total))

\* a resolution that leaves start_time at 0 after one that left it elsewhere
C18_Witness ==
    /\ Resolved /\ resolution.previous
    /\ resolution.duration = NoneDuration /\ FallsBack
    /\ resolution.start_time = 0

\* ------------------------------------------------- claims on the samplers
\* floor(duration / interval) + 1 for duration = total_frames / fps
\* (duration 0 when fps = 0)
IntervalLimit ==
    IF sampled.file.fps = 0 THEN 1
    ELSE CHOOSE n \in 1..(MaxTotalFrames + 2) :
           /\ (n - 1) * sampled.interval_seconds * sampled.file.fps
                  <= sampled.file.total_frames
           /\ n * sampled.interval_seconds * sampled.file.fps > sampled.file.total_frames

NonDecreasing(q) == \A i \in 2..Len(q) : q[i - 1] <= q[i]

\* C13: extract_frames and extract_key_frames return at most num_frames
\* frames, extract_frames_every_n_seconds at most floor(duration/interval)+1,
\* and the timestamps the fixed-interval and the transcript-guided sampler go
\* to are in non-decreasing order.
C13_SamplersBounded ==
    /\ sampled.strategy \in {"extract_frames", "extract_key_frames"}
          => Len(sampled.frames) <= sampled.num_frames
    /\ (sampled.strategy = "extract_frames_every_n_seconds" /\ sampled.interval_seconds > 0)
          => Len(sampled.frames) <= IntervalLimit
    /\ sampled.strategy # "none" => NonDecreasing(sampled.visited)

\* the transcript-guided sampler cut its timestamps down to num_frames and a
\* seek failed
C13_Witness ==
    /\ sampled.strategy = "extract_key_frames"
    /\ Len(sampled.starts) > sampled.num_frames
    /\ sampled.num_frames = 2
    /\ Len(sampled.visited) = 2 /\ Len(sampled.frames) = 1

\* ------------------------------------------------- claims on AIAnalyzer
\* the mode the caller asked for: analyze_video's argument, the constructor's
\* when the argument is None
RequestedMode ==
    IF call.use_enhanced_arg = "none" THEN call.use_enhanced ELSE call.use_enhanced_arg

\* C14: a call asked to run enhanced never transcribes with the local model
\* and a call asked to run local never calls the transcription API, for every
\* api_key, constructor flag and argument.
C14_NoStrategyFallback ==
    call # NoCall
    => /\ RequestedMode = "true" => call.results.transcriber # "transcribe_local"
       /\ RequestedMode = "false" => call.results.transcriber # "transcribe_api"

\* C19: whisper.load_model is called at most once in the life of the process.
C19_ModelLoadedOnce == whisper_loads <= 1

\* ------------------------------------- claims on concurrency and status
\* worker w has written 'processing' for its video and no terminal status yet
InRun(w) == pc[w] \in {"started", "creating"}

\* C15: at most one run per video is between writing 'processing' and
\* writing its terminal status.
C15_OneRunPerVideo ==
    \A w1, w2 \in Workers :
        (w1 # w2 /\ InRun(w1) /\ InRun(w2)) => req[w1].video_id # req[w2].video_id

\* C16: a status query for an existing video answers 200 with the progress
\* and stage a run wrote for the video last, 0 / 'Not started' when none did.
C16_StatusReportsProgress ==
    [][(status_reply' # status_reply /\ status_reply'.video_id \in VideoIds)
       => LET expected == StatusProgress(last_written[status_reply'.video_id])
          IN  /\ status_reply'.code = 200
              /\ status_reply'.progress = expected.progress
              /\ status_reply'.stage = expected.stage]_vars

\* C20: a run that wrote 'processing' ends with analysis_status 'completed'
\* or 'failed'.
C20_RunEndsTerminal ==
    [][\A w \in Workers :
          Ends(w) => videos'[req[w].video_id].analysis_status \in {"completed", "failed"}]_vars

\* ------------------------------------------- claims on the stage sequence
\* the stages a successful call of the given method makes, in order
ExpectedStages(res, libs) ==
    IF res.method = "enhanced"
    THEN <<"extract_audio", "transcribe">>
         \o (IF libs.cv2 THEN <<"sample_frames">> ELSE <<>>)
         \o (IF res.frames_extracted > 0 THEN <<"visual_analysis">> ELSE <<>>)
         \o <<"transcript_analysis">>
    ELSE <<"extract_audio", "transcribe">>

StageRank(stage) ==
    CASE stage = "extract_audio" -> 1 [] stage = "transcribe" -> 2
      [] stage = "sample_frames" -> 3 [] stage = "visual_analysis" -> 4
      [] stage = "transcript_analysis" -> 5

\* C21 as stated: the stages of a successful call come in the order extract
\* audio, transcribe, sample frames, visual analysis, transcript analysis, and
\* transcript analysis is among them in enhanced and in local mode.
C21_StagesInOrderAsStated ==
    (call # NoCall /\ call.results.status = "success")
    => LET stages == call.results.stages
       IN  /\ \A i, j \in 1..Len(stages) : i < j => StageRank(stages[i]) < StageRank(stages[j])
           /\ \E i \in 1..Len(stages) : stages[i] = "transcript_analysis"

\* C21 amended: a successful enhanced call makes extract audio, transcribe,
\* frame sampling (when OpenCV is installed), visual analysis (when a frame was
\* sampled) and transcript analysis, in this order; a successful local call
\* makes extract audio and transcribe only.
C21_StagesInOrder ==
    (call # NoCall /\ call.results.status = "success")
    => call.results.stages = ExpectedStages(call.results, call.libs)

\* a successful local call made with an OpenAI client at hand
C21_Witness ==
    /\ call # NoCall /\ call.results.status = "success"
    /\ call.results.method = "local"
    /\ call.api_key = "set" /\ call.use_enhanced = "true" /\ call.libs.openai
    /\ call.results.stages = <<"extract_audio", "transcribe">>

\* ------------------------------------------ claims on the created records
\* the observations the two analysis calls of worker w's run returned
ReturnedTranscriptObs(w) == IF outcome[w].analysis = "ok" THEN outcome[w].tobs ELSE <<>>

ReturnedVisualObs(w) == IF outcome[w].vision = "ok" THEN outcome[w].vobs ELSE <<>>

CatalogTitles == {Catalog[i].title : i \in 1..Len(Catalog)}

\* row a is the annotation of observation ob
RecordOf(a, ob) ==
    /\ a.annotation_type = "ai_generated"
    /\ a.status = (IF ob.is_positive THEN "draft" ELSE "needs_review")
    /\ IF ob.practice_title \in CatalogTitles
       THEN \E i \in 1..Len(Catalog) :
                Catalog[i].id = a.practice_id /\ Catalog[i].title = ob.practice_title
       ELSE a.practice_id = NoPractice

\* C22: a successful run with generate_annotations creates one annotation per
\* observation, those of the transcript observations first and in their order,
\* then those of the visual observations in their order; an observation whose
\* practice_title is not in the catalog gets an annotation without practice.
C22_OneAnnotationPerObservation ==
    [][\A w \in Workers :
          (Ends(w) /\ response'[w] = 200 /\ results[w].status = "success"
             /\ req[w].generate_annotations)
          => LET obs == ReturnedTranscriptObs(w) \o ReturnedVisualObs(w)
                 mine == {a \in annotations' : a.run = req[w].run}
             IN  /\ Cardinality(mine) = Len(obs)
                 /\ \A i \in 1..Len(obs) :
                        \E a \in mine : /\ a.id = <<req[w].run, i>>
                                        /\ a.video_id = req[w].video_id
                                        /\ RecordOf(a, obs[i])]_vars

\* a run that created the annotations of two transcript observations and of a
\* visual observation with an unlisted practice_title after them
C22_Witness ==
    \E w \in Workers :
        /\ pc[w] = "done" /\ response[w] = 200 /\ results[w].status = "success"
        /\ req[w].generate_annotations
        /\ Len(ReturnedTranscriptObs(w)) = MaxTObs
        /\ ReturnedVisualObs(w) # <<>>
        /\ ReturnedVisualObs(w)[Len(ReturnedVisualObs(w))] = ObsUnlisted
        /\ \E a \in annotations :
               /\ a.id = <<req[w].run, MaxTObs + Len(ReturnedVisualObs(w))>>
               /\ a.practice_id = NoPractice /\ a.status = "draft"

\* ---------------------------------- claims on transcript-guided sampling
\* the distinct start times among the segments the sampler uses
UsedStarts ==
    LET segment_times == Prefix(sampled.starts, KeySegments)
    IN  {segment_times[i] : i \in 1..Len(segment_times)}

\* C23: the timestamps extract_key_frames selects are distinct, ascending and
\* at most num_frames, and for a video of positive duration with fewer than
\* num_frames distinct segment starts they are exactly num_frames.
C23_KeyTimestampsReachN ==
    sampled.strategy = "extract_key_frames"
    => /\ \A i \in 2..Len(sampled.visited) : sampled.visited[i - 1] < sampled.visited[i]
       /\ Len(sampled.visited) <= sampled.num_frames
       /\ (sampled.file.fps > 0 /\ sampled.file.total_frames > 0
             /\ Cardinality(UsedStarts) < sampled.num_frames)
          => Len(sampled.visited) = sampled.num_frames

\* ------------------------------------------ claims on the analysis prompts
\* criteria of the call's best_practices the video's category admits
Admitted ==
    {prompted.best_practices[i] : i \in 1..Len(prompted.best_practices)}
    \ (IF prompted.video_category = NoCategory THEN {}
       ELSE {prompted.best_practices[i] : i \in
                {j \in 1..Len(prompted.best_practices) :
                    prompted.best_practices[j].category # prompted.video_category}})

SentPractices == {prompted.practices[i] : i \in 1..Len(prompted.practices)}

\* C24: both calls put into the prompt only criteria of the video's category,
\* or of the whole catalog without a category; the transcript call puts all of
\* them, the visual call only those whose description has a visual keyword,
\* and at most 15.
C24_CriteriaByCategory ==
    /\ prompted.call # "none" => SentPractices \subseteq Admitted
    /\ prompted.call = "analyze_transcript" => SentPractices = Admitted
    /\ prompted.call = "analyze_frames_with_vision"
          => /\ \A p \in SentPractices : MentionsVisualKeyword(p)
             /\ Len(prompted.practices) <= 15

\* a visual call for a category with more than 15 visual criteria, among
\* criteria of another category and criteria without a visual keyword
C24_Witness ==
    /\ prompted.call = "analyze_frames_with_vision"
    /\ prompted.video_category = "discrete_trial"
    /\ Len(prompted.practices) = 15
    /\ Cardinality({p \in Admitted : MentionsVisualKeyword(p)}) > 15
    /\ \E p \in Admitted : ~MentionsVisualKeyword(p)
    /\ \E i \in 1..Len(prompted.best_practices) :
           /\ prompted.best_practices[i].category = "pivotal_response"
           /\ MentionsVisualKeyword(prompted.best_practices[i])

\* C25: the frames sent are at most 15, all the frames when there are at most
\* 15, and otherwise every floor(m/15)-th frame from the first one on, cut to
\* 15; they are in the order of the sampled frames.
C25_BoundedImageList ==
    prompted.call = "analyze_frames_with_vision"
    => LET m == Len(prompted.frames_base64)
           sent == prompted.sample_frames
           step == m \div 15
       IN  /\ Len(sent) <= 15
           /\ \A j \in 2..Len(sent) : sent[j - 1] < sent[j]
           /\ m <= 15 => sent = prompted.frames_base64
           /\ m > 15 => /\ \A j \in 1..Len(sent) :
                               sent[j] = prompted.frames_base64[(j - 1) * step + 1]
                        /\ \/ Len(sent) = 15
                           \/ Len(sent) * step + 1 > m

\* 30 frames or more: every second frame is sent
C25_Witness ==
    /\ prompted.call = "analyze_frames_with_vision"
    /\ Len(prompted.frames_base64) >= 30
    /\ Len(prompted.sample_frames) = 15
    /\ prompted.sample_frames[2] = prompted.frames_base64[3]

\* --------------------------------------- claims on what a run leaves behind
\* ai_generated annotations of video v in the table
MachineProduced(v) ==
    {a \in annotations : a.video_id = v /\ a.annotation_type = "ai_generated"}

\* C26: when a run asked to generate annotations has ended, in success or in
\* failure, the ai_generated annotations of its video are either those from
\* before the run, none deleted and none added, or exactly one per observation
\* of the run's successful result.
C26_AnnotationSetReplacedWhole ==
    \A w \in Workers :
        (Ended(w) /\ req[w].generate_annotations)
        => LET ai == MachineProduced(req[w].video_id)
               new == {a \in ai : a.run = req[w].run}
           IN  \/ new = {} /\ deleted[w] = 0
               \/ /\ ai = new
                  /\ results[w].status = "success"
                  /\ {a.obs : a \in new} = 1..Len(results[w].annotations)

\* C27: no step of a run requested with generate_annotations = false changes
\* the annotations table: none is created, none is deleted, none is modified.
C27_NoAnnotationChangeWhenDisabled ==
    [][\A w \in Workers :
          (pc[w] \in {"started", "creating"} /\ pc'[w] # pc[w]
             /\ ~req[w].generate_annotations)
          => annotations' = annotations]_vars

\* C28: when a successful run has ended, the transcript row of its video has
\* the content, method, language and processing time of that run's transcript.
C28_TranscriptOfLatestRun ==
    \A w \in Workers :
        (Ended(w) /\ response[w] = 200 /\ results[w].status = "success")
        => LET row == transcripts[req[w].video_id]
               td == results[w].transcript
           IN  /\ row.exists
               /\ row.content = td.text
               /\ row.method = td.method
               /\ row.language = td.language
               /\ row.processing_time = td.processing_time

\* ------------------------------------------- claims on rejected requests
\* the step in which the handler of w answers before starting a run
Rejects(w) == pc[w] = "idle" /\ pc'[w] = "done"

\* C30: a request answered before the run starts (no such video, download
\* failure, no file on the server) changes no video row, so neither
\* analysis_status nor is_analyzed, writes no progress, and changes no
\* transcript and no annotation.
C30_RejectionChangesNothing ==
    [][\A w \in Workers :
          Rejects(w)
          => /\ response'[w] \in {404, 500}
             /\ videos' = videos
             /\ last_written' = last_written
             /\ written'[w] = <<>>
             /\ transcripts' = transcripts
             /\ annotations' = annotations]_vars

\* a request for a video with results of an earlier run, rejected because its
\* file is not on the server
C30_Witness ==
    \E w \in Workers :
        /\ pc[w] = "done" /\ response[w] = 404 /\ results[w].status = "none"
        /\ req[w].video_id \in VideoIds
        /\ videos[req[w].video_id].analysis_status = "completed"
        /\ transcripts[req[w].video_id].exists
        /\ MachineProduced(req[w].video_id) # {}

\* C29: the practice linked to an annotation a run created on a video with a
\* category is a catalog criterion with the observation's practice_title and
\* with the video's category.
C29_PracticeOfVideoCategory ==
    \A w \in Workers :
        Ended(w)
        => \A a \in annotations :
              (a.run = req[w].run /\ a.practice_id # NoPractice
                 /\ videos[a.video_id].category # NoCategory)
              => \E i \in 1..Len(Catalog) :
                     /\ Catalog[i].id = a.practice_id
                     /\ Catalog[i].title = results[w].annotations[a.obs].practice_title
                     /\ Catalog[i].category = videos[a.video_id].category
====
